---- MODULE Spec2Model ----
(***************************************************************************)
(* Model of app/cmd/main.go: the catalog fetcher (fetchAllCards), the      *)
(* reconciliation loop of Process, the scrape dispatch                     *)
(* (scrapeProductData), the cost calculator (convertAndMultiply), the      *)
(* upsert (saveToDatabase) and the stock amount table (calcAmount).        *)
(*                                                                         *)
(* Go strings are modelled as sequences of one-character strings, so that  *)
(* strings.Split, strings.LastIndex, strconv.Atoi, strconv.ParseFloat and  *)
(* the regular expressions are computed on the characters.                 *)
(***************************************************************************)
EXTENDS Integers, Sequences, FiniteSets, TLC

VARIABLES
    cfg,               \* Config passed to Process (FpPatterns, VendorCodePatterns, UsePcs)
    pc,                \* position of the run
    allCards,          \* fetchAllCards: accumulated cards
    updatedAt,         \* fetchAllCards: cursor timestamp
    nmID,              \* fetchAllCards: cursor id
    requests,          \* cursors sent to getCardsList, in order
    pages,             \* responses received from getCardsList, in order
    idx,               \* Process: number of cards the loop has taken
    skuMap,            \* Process: nmID -> list of SKUs
    productDataCache,  \* Process: productID -> scraped data
    store,             \* rows of table products
    saves,             \* saveToDatabase calls (the line it prints), in order
    scrapes,           \* scrapeProductData calls, in order
    log,               \* log lines of the card loop, in order
    pcs,               \* calcAmount argument
    availableCount,    \* calcAmount argument
    amount,            \* calcAmount result
    total,             \* updateStocks: len(stocksData)
    offset,            \* updateStocks: the loop index i
    events             \* updateStocks: batches attempted and sleeps, in order

vars == <<cfg, pc, allCards, updatedAt, nmID, requests, pages, idx, skuMap,
          productDataCache, store, saves, scrapes, log, pcs, availableCount, amount,
          total, offset, events>>

fetchVars == <<allCards, updatedAt, nmID, requests, pages>>
loopVars == <<idx, skuMap, productDataCache, scrapes, log>>
calcVars == <<pcs, availableCount, amount>>
stockVars == <<total, offset, events>>

(***************************************************************************)
(* Bounds                                                                  *)
(***************************************************************************)
MaxPages == 2
MaxSaves == 3
MaxPcs == 101
MaxAvail == 6
MaxRows == 2001

(***************************************************************************)
(* Strings                                                                 *)
(***************************************************************************)
Digits == {"0", "1", "2", "3", "4", "5", "6", "7", "8", "9"}

DigitVal(c) ==
    CASE c = "0" -> 0 [] c = "1" -> 1 [] c = "2" -> 2 [] c = "3" -> 3
      [] c = "4" -> 4 [] c = "5" -> 5 [] c = "6" -> 6 [] c = "7" -> 7
      [] c = "8" -> 8 [] c = "9" -> 9

AllDigits(s) == \A i \in 1..Len(s) : s[i] \in Digits

RECURSIVE DecVal(_)
DecVal(s) ==
    IF Len(s) = 0 THEN 0
    ELSE 10 * DecVal(SubSeq(s, 1, Len(s) - 1)) + DigitVal(s[Len(s)])

\* strconv.Atoi: optional sign, then one or more decimal digits.
Atoi(s) ==
    LET signed == Len(s) > 0 /\ s[1] \in {"+", "-"}
        body == IF signed THEN Tail(s) ELSE s
    IN  IF Len(body) > 0 /\ AllDigits(body)
        THEN [ok |-> TRUE, val |-> IF signed /\ s[1] = "-" THEN 0 - DecVal(body) ELSE DecVal(body)]
        ELSE [ok |-> FALSE, val |-> 0]

\* fmt.Sprintf("%d", n) and strconv.Itoa(n).
RECURSIVE NatStr(_)
NatStr(n) ==
    LET d == <<"0", "1", "2", "3", "4", "5", "6", "7", "8", "9">>
    IN  IF n < 10 THEN <<d[n + 1]>> ELSE NatStr(n \div 10) \o <<d[(n % 10) + 1]>>

Itoa(n) == IF n < 0 THEN <<"-">> \o NatStr(0 - n) ELSE NatStr(n)

\* strings.Index(s, sep) for a one-character sep, 1-based; 0 when absent.
Index(s, sep) ==
    IF \E i \in 1..Len(s) : s[i] = sep
    THEN CHOOSE i \in 1..Len(s) : s[i] = sep /\ \A j \in 1..(i - 1) : s[j] # sep
    ELSE 0

\* strings.LastIndex(s, sep) for a one-character sep, 1-based; 0 when absent.
LastIndex(s, sep) ==
    IF \E i \in 1..Len(s) : s[i] = sep
    THEN CHOOSE i \in 1..Len(s) : s[i] = sep /\ \A j \in (i + 1)..Len(s) : s[j] # sep
    ELSE 0

\* strings.Split(s, sep) for a one-character sep.
RECURSIVE Split(_, _)
Split(s, sep) ==
    LET i == Index(s, sep)
    IN  IF i = 0 THEN <<s>>
        ELSE <<SubSeq(s, 1, i - 1)>> \o Split(SubSeq(s, i + 1, Len(s)), sep)

(***************************************************************************)
(* Regular expressions.  Every pattern of the program has the shape        *)
(*   ^head(_lead\d+)...$                                                   *)
(* with head one of finitely many literal words and lead a literal that    *)
(* may be empty.  As neither head, lead nor \d+ holds "_", a string        *)
(* matches exactly when its "_"-separated fields do.                       *)
(***************************************************************************)
MatchGroup(field, lead) ==
    /\ Len(field) > Len(lead)
    /\ SubSeq(field, 1, Len(lead)) = lead
    /\ AllDigits(SubSeq(field, Len(lead) + 1, Len(field)))

MatchString(pattern, s) ==
    LET fields == Split(s, "_")
    IN  /\ Len(fields) = 1 + Len(pattern.groups)
        /\ fields[1] \in pattern.heads
        /\ \A g \in 1..Len(pattern.groups) : MatchGroup(fields[g + 1], pattern.groups[g])

Plain(word, n) == [heads |-> {word}, groups |-> [g \in 1..n |-> <<>>]]

W_growme == <<"g", "r", "o", "w", "m", "e">>
W_soil == <<"s", "o", "i", "l">>
W_yant == <<"y", "a", "n", "t">>
W_sunterra == <<"s", "u", "n", "t", "e", "r", "r", "a">>
W_kormilitsa == <<"k", "o", "r", "m", "i", "l", "i", "t", "s", "a">>
W_fertilizer == <<"f", "e", "r", "t", "i", "l", "i", "z", "e", "r">>
W_f == <<"f">>
W_korennik == <<"k", "o", "r", "e", "n", "n", "i", "k">>
W_box == <<"b", "o", "x">>
W_bubblebags == <<"b", "u", "b", "b", "l", "e", "b", "a", "g", "s">>

\* ^growme[cp]?t?_\d+$
P_growme ==
    [heads |-> {W_growme \o a \o b : a \in {<<>>, <<"c">>, <<"p">>}, b \in {<<>>, <<"t">>}},
     groups |-> <<<<>>>>]

\* ^bubblebags_9\d+_\d+$ and ^bubblebags_1\d+_\d+$
P_bubblebags9 == [heads |-> {W_bubblebags}, groups |-> <<<<"9">>, <<>>>>]
P_bubblebags1 == [heads |-> {W_bubblebags}, groups |-> <<<<"1">>, <<>>>>]

\* cfg.FpPatterns and cfg.VendorCodePatterns of main
FpPatterns ==
    <<"^growme[cp]?t?_\\d+$", "^soil_\\d+_\\d+$", "^yant_\\d+_\\d+$", "^sunterra_\\d+_\\d+$",
      "^kormilitsa_\\d+_\\d+$", "^fertilizer_\\d+_\\d+$", "^f_\\d+_\\d+$", "^korennik_\\d+_\\d+$">>

VendorCodePatterns == <<"^box_\\d+_\\d+$", "^bubblebags_9\\d+_\\d+$", "^bubblebags_1\\d+_\\d+$">>

\* regexp.MustCompile on the pattern strings of the program
Compile(re) ==
    CASE re = "^growme[cp]?t?_\\d+$" -> P_growme
      [] re = "^soil_\\d+_\\d+$" -> Plain(W_soil, 2)
      [] re = "^yant_\\d+_\\d+$" -> Plain(W_yant, 2)
      [] re = "^sunterra_\\d+_\\d+$" -> Plain(W_sunterra, 2)
      [] re = "^kormilitsa_\\d+_\\d+$" -> Plain(W_kormilitsa, 2)
      [] re = "^fertilizer_\\d+_\\d+$" -> Plain(W_fertilizer, 2)
      [] re = "^f_\\d+_\\d+$" -> Plain(W_f, 2)
      [] re = "^korennik_\\d+_\\d+$" -> Plain(W_korennik, 2)
      [] re = "^box_\\d+_\\d+$" -> Plain(W_box, 2)
      [] re = "^bubblebags_9\\d+_\\d+$" -> P_bubblebags9
      [] re = "^bubblebags_1\\d+_\\d+$" -> P_bubblebags1

\* The first-match loops over a pattern list (they break on the first match).
MatchesAny(patterns, s) == \E i \in 1..Len(patterns) : MatchString(Compile(patterns[i]), s)

(***************************************************************************)
(* More string functions                                                   *)
(***************************************************************************)
Space == {" ", "\t", "\n"}

\* strings.ReplaceAll(s, c, "") for a one-character c.
RemoveAll(s, c) == SelectSeq(s, LAMBDA x : x # c)

RECURSIVE TrimLeft(_)
TrimLeft(s) == IF Len(s) > 0 /\ s[1] \in Space THEN TrimLeft(Tail(s)) ELSE s

RECURSIVE TrimRight(_)
TrimRight(s) ==
    IF Len(s) > 0 /\ s[Len(s)] \in Space THEN TrimRight(SubSeq(s, 1, Len(s) - 1)) ELSE s

TrimSpace(s) == TrimRight(TrimLeft(s))

\* strings.Fields(s): the maximal runs of non-space characters.
RECURSIVE Fields(_)
Fields(s) ==
    LET t == TrimLeft(s)
        stop == IF \E i \in 1..Len(t) : t[i] \in Space
                THEN CHOOSE i \in 1..Len(t) : t[i] \in Space /\ \A j \in 1..(i - 1) : t[j] \notin Space
                ELSE Len(t) + 1
    IN  IF Len(t) = 0 THEN <<>>
        ELSE <<SubSeq(t, 1, stop - 1)>> \o Fields(SubSeq(t, stop, Len(t)))

\* strconv.ParseFloat on decimal literals: optional sign, digits with an
\* optional "." and digits, at least one digit in all.  ip is the integer
\* part, frac the fractional digits.
ParseFloat(s) ==
    LET signed == Len(s) > 0 /\ s[1] \in {"+", "-"}
        body == IF signed THEN Tail(s) ELSE s
        dot == Index(body, ".")
        ipart == IF dot = 0 THEN body ELSE SubSeq(body, 1, dot - 1)
        fpart == IF dot = 0 THEN <<>> ELSE SubSeq(body, dot + 1, Len(body))
    IN  IF AllDigits(ipart) /\ AllDigits(fpart) /\ Len(ipart) + Len(fpart) > 0
        THEN [ok |-> TRUE, neg |-> signed /\ s[1] = "-", ip |-> DecVal(ipart), frac |-> fpart]
        ELSE [ok |-> FALSE, neg |-> FALSE, ip |-> 0, frac |-> <<>>]

\* The price cut to its integer part instead of rounded up.
Ceil_truncate(f) == IF f.neg THEN 0 - f.ip ELSE f.ip

\* int(math.Ceil(price))
Ceil(f) ==
    LET hasFrac == \E i \in 1..Len(f.frac) : f.frac[i] # "0"
    IN  IF f.neg THEN 0 - f.ip
        ELSE IF hasFrac THEN f.ip + 1 ELSE f.ip

convertAndMultiply(priceStr, multiplierStr) ==
    LET price == ParseFloat(priceStr)
        multiplier == Atoi(multiplierStr)
    IN  IF ~price.ok THEN [err |-> TRUE, val |-> 0]
        ELSE IF ~multiplier.ok THEN [err |-> TRUE, val |-> 0]
        ELSE [err |-> FALSE, val |-> Ceil(price) * multiplier.val]

(***************************************************************************)
(* Cards, reference tables, configurations                                 *)
(***************************************************************************)
U == <<"_">>
VC_box_77_20 == W_box \o U \o <<"7", "7">> \o U \o <<"2", "0">>
VC_box_77_3 == W_box \o U \o <<"7", "7">> \o U \o <<"3">>
VC_box_5_2 == W_box \o U \o <<"5">> \o U \o <<"2">>
VC_box_19_5 == W_box \o U \o <<"1", "9">> \o U \o <<"5">>
VC_bubblebags_19_100 == W_bubblebags \o U \o <<"1", "9">> \o U \o <<"1", "0", "0">>
VC_bubblebags_18_10 == W_bubblebags \o U \o <<"1", "8">> \o U \o <<"1", "0">>
VC_bubblebags_91_10 == W_bubblebags \o U \o <<"9", "1">> \o U \o <<"1", "0">>
VC_soil_1_3 == W_soil \o U \o <<"1">> \o U \o <<"3">>
VC_soil_2_3 == W_soil \o U \o <<"2">> \o U \o <<"3">>
VC_soil_3_3 == W_soil \o U \o <<"3">> \o U \o <<"3">>
VC_foo_1 == <<"f", "o", "o">> \o U \o <<"1">>

Card(id, vc, sizes) == [NmID |-> id, VendorCode |-> vc, Sizes |-> sizes]

\* The cards the content API may return.  An nmID names one card.
Cards ==
    { Card(1, VC_box_77_20, <<<<"sku1">>>>),
      Card(2, VC_box_77_3, <<<<>>, <<"sku2">>>>),
      Card(3, VC_bubblebags_19_100, <<<<"sku3">>>>),
      Card(4, VC_bubblebags_18_10, <<<<"sku4">>>>),
      Card(77, VC_soil_1_3, <<<<"sku5">>>>),
      Card(6, VC_soil_2_3, <<<<"sku6">>>>),
      Card(7, VC_box_5_2, <<<<"sku7a">>, <<"sku7b">>>>),
      Card(500, VC_soil_3_3, <<<<>>>>),
      Card(9, VC_foo_1, <<<<"sku9">>>>),
      Card(10, VC_bubblebags_91_10, <<>>),
      Card(11, VC_box_19_5, <<<<"sku11">>>>) }

\* download.csv after loadDownloadData
downloadCSVData ==
    (77 :> [Price |-> 40, Quantity |-> 12]) @@ (500 :> [Price |-> 40, Quantity |-> 12])

\* urls.csv after loadBubblebagsCSV
bubblebagsURLMap == (W_bubblebags \o U \o <<"1", "9">>) :> "https://packio.ru/product/19"

baseURL == "https://sp.cargo-avto.ru/catalog/"

\* The Config of main, the same with UsePcs off, and one whose
\* VendorCodePatterns also hold a fixed-price pattern.
Configs ==
    { [FpPatterns |-> FpPatterns, VendorCodePatterns |-> VendorCodePatterns, UsePcs |-> TRUE],
      [FpPatterns |-> FpPatterns, VendorCodePatterns |-> VendorCodePatterns, UsePcs |-> FALSE],
      [FpPatterns |-> FpPatterns,
       VendorCodePatterns |-> VendorCodePatterns \o <<"^soil_\\d+_\\d+$">>,
       UsePcs |-> TRUE] }

(***************************************************************************)
(* fetchAllCards                                                           *)
(***************************************************************************)
Cursor(u, n) == [UpdatedAt |-> u, NmID |-> n]

\* Batches a page may carry.
Batches ==
    {<<>>} \cup {<<c>> : c \in Cards}
           \cup {<<Card(77, VC_soil_1_3, <<<<"sku5">>>>),
                    Card(7, VC_box_5_2, <<<<"sku7a">>, <<"sku7b">>>>)>>}

\* What getCardsList may return: an error, or a page with its cursor.
Responses ==
    {[err |-> TRUE, Cards |-> <<>>, Cursor |-> Cursor("", 0)]}
      \cup {[err |-> FALSE, Cards |-> <<>>, Cursor |-> Cursor("", 0)]}
      \cup {[err |-> FALSE, Cards |-> b, Cursor |-> cu] :
              b \in Batches \ {<<>>},
              cu \in {Cursor("2024-05-01", 5), Cursor("2024-05-01", 0)}}
      \cup {[err |-> FALSE, Cards |-> <<c>>, Cursor |-> Cursor("", 5)] :
              c \in {x \in Cards : x.NmID \in {1, 2}}}

\* A response after which fetchAllCards must stop.
Terminal(resp) ==
    resp.err \/ Len(resp.Cards) = 0 \/ resp.Cursor.UpdatedAt = "" \/ resp.Cursor.NmID = 0

\* fetchAllCards that leaves the loop only on an error or an empty batch,
\* without the test of the new cursor.
fetchNext_noCursorTest(st, resp) ==
    IF resp.err \/ Len(resp.Cards) = 0
    THEN [allCards |-> st.allCards, updatedAt |-> st.updatedAt, nmID |-> st.nmID, brk |-> TRUE]
    ELSE [allCards |-> st.allCards \o resp.Cards,
          updatedAt |-> resp.Cursor.UpdatedAt,
          nmID |-> resp.Cursor.NmID,
          brk |-> FALSE]

\* fetchAllCards that returns nothing when a request fails.
fetchNext_dropOnError(st, resp) ==
    IF resp.err
    THEN [allCards |-> <<>>, updatedAt |-> st.updatedAt, nmID |-> st.nmID, brk |-> TRUE]
    ELSE IF Len(resp.Cards) = 0
    THEN [allCards |-> st.allCards, updatedAt |-> st.updatedAt, nmID |-> st.nmID, brk |-> TRUE]
    ELSE [allCards |-> st.allCards \o resp.Cards,
          updatedAt |-> resp.Cursor.UpdatedAt,
          nmID |-> resp.Cursor.NmID,
          brk |-> resp.Cursor.UpdatedAt = "" \/ resp.Cursor.NmID = 0]

\* One iteration of the loop of fetchAllCards on the response resp:
\* the new locals, and brk when the loop is left.
fetchNext(st, resp) ==
    IF resp.err
    THEN [allCards |-> st.allCards, updatedAt |-> st.updatedAt, nmID |-> st.nmID, brk |-> TRUE]
    ELSE IF Len(resp.Cards) = 0
    THEN [allCards |-> st.allCards, updatedAt |-> st.updatedAt, nmID |-> st.nmID, brk |-> TRUE]
    ELSE [allCards |-> st.allCards \o resp.Cards,
          updatedAt |-> resp.Cursor.UpdatedAt,
          nmID |-> resp.Cursor.NmID,
          brk |-> resp.Cursor.UpdatedAt = "" \/ resp.Cursor.NmID = 0]

\* A request to getCardsList and the handling of its response.  The page
\* sequence is cut at MaxPages: the last page allowed is a terminal one.
FetchPage ==
    /\ pc = "fetch"
    /\ Len(pages) < MaxPages
    /\ \E resp \in Responses :
         /\ Len(pages) = MaxPages - 1 => Terminal(resp)
         /\ LET nx == fetchNext([allCards |-> allCards, updatedAt |-> updatedAt, nmID |-> nmID], resp)
            IN  /\ requests' = Append(requests, Cursor(updatedAt, nmID))
                /\ pages' = Append(pages, resp)
                /\ allCards' = nx.allCards
                /\ updatedAt' = nx.updatedAt
                /\ nmID' = nx.nmID
                /\ pc' = IF nx.brk THEN "fetched" ELSE "fetch"
    /\ UNCHANGED <<cfg, store, saves>>
    /\ UNCHANGED loopVars
    /\ UNCHANGED calcVars
    /\ UNCHANGED stockVars

(***************************************************************************)
(* Process: set-up of the card loop                                        *)
(***************************************************************************)
RECURSIVE Flatten(_)
Flatten(sizes) == IF Len(sizes) = 0 THEN <<>> ELSE Head(sizes) \o Flatten(Tail(sizes))

\* extractSKUs: a later card with the same nmID replaces the entry.
extractSKUs(cards) ==
    [n \in {cards[i].NmID : i \in 1..Len(cards)} |->
        LET last == CHOOSE i \in 1..Len(cards) :
                       /\ cards[i].NmID = n
                       /\ \A j \in (i + 1)..Len(cards) : cards[j].NmID # n
        IN  Flatten(cards[last].Sizes)]

\* fetchAllCards has returned; Process builds the cache and the SKU map.
StartLoop ==
    /\ pc = "fetched"
    /\ pc' = "loop"
    /\ skuMap' = extractSKUs(allCards)
    /\ productDataCache' = <<>>
    /\ idx' = 0
    /\ UNCHANGED <<cfg, store, saves, scrapes, log>>
    /\ UNCHANGED fetchVars
    /\ UNCHANGED calcVars
    /\ UNCHANGED stockVars

(***************************************************************************)
(* saveToDatabase                                                          *)
(***************************************************************************)
\* saveToDatabase as a plain INSERT, without the ON CONFLICT clause.
saveToDatabase_insert(db, params, sku) ==
    LET a == Atoi(params.AvailableCountStr)
    IN  db \cup {[nm_id |-> params.NmID, vendor_code |-> params.VendorCode,
                  pcs |-> params.Pcs, product_id |-> params.ProductID, sku |-> sku,
                  available_count |-> IF a.ok THEN a.val ELSE 0,
                  cost |-> params.Cost]}

\* The upsert on UNIQUE (product_id, pcs); AvailableCountStr that is not
\* an integer is stored as 0.  The surrogate id column is left out.
saveToDatabase(db, params, sku) ==
    LET a == Atoi(params.AvailableCountStr)
        row == [nm_id |-> params.NmID, vendor_code |-> params.VendorCode,
                pcs |-> params.Pcs, product_id |-> params.ProductID, sku |-> sku,
                available_count |-> IF a.ok THEN a.val ELSE 0,
                cost |-> params.Cost]
    IN  {r \in db : ~(r.product_id = row.product_id /\ r.pcs = row.pcs)} \cup {row}

SaveParams(id, vc, p, pid, avail, cost) ==
    [NmID |-> id, VendorCode |-> vc, Pcs |-> p, ProductID |-> pid,
     AvailableCountStr |-> avail, Cost |-> cost]

(***************************************************************************)
(* scrapeProductData                                                       *)
(***************************************************************************)
\* What the browser may show: navigation fails, or the page carries a price
\* text, a stock label and a number of stores with the item.
Page(f, price, stock, n) ==
    [fail |-> f, price |-> price, htmlStock |-> stock, availableStoresCount |-> n]

Pages ==
    { Page(TRUE, <<>>, <<>>, 0),
      Page(FALSE, <<"1", "5", ".", "5", "0", " ", "p">>, <<"V", "nalichii">>, 3),
      Page(FALSE, <<"1", "0", ".", "0", "1">>, <<"Pod", "zakaz">>, 5),
      Page(FALSE, <<" ", "1", "0", ".", "0", "0", " ">>, <<"V", "nalichii", "na", "sklade">>, 0),
      Page(FALSE, <<>>, <<"V", "nalichii">>, 1),
      Page(FALSE, <<"1", ",", "5">>, <<"Net", "v", "nalichii">>, 2) }

\* strings.Contains(s, sub); a stock label is the sequence of its words,
\* transliterated.
Contains(s, sub) == \E i \in 1..(Len(s) - Len(sub) + 1) : SubSeq(s, i, i + Len(sub) - 1) = sub

InStock(htmlStock) == Contains(htmlStock, <<"V", "nalichii">>)

ProductData(price, avail) == [price |-> price, availableCount |-> avail]

\* The URL the call navigates to; "" when it returns before navigating.
scrapeURL(vendorCode) ==
    LET i == LastIndex(vendorCode, "_")
        baseKey == IF i # 0 THEN SubSeq(vendorCode, 1, i - 1) ELSE vendorCode
        parts == Split(vendorCode, "_")
    IN  IF MatchString(P_bubblebags1, vendorCode)
        THEN IF baseKey \in DOMAIN bubblebagsURLMap THEN <<bubblebagsURLMap[baseKey]>> ELSE <<>>
        ELSE IF Len(parts) < 2 THEN <<>> ELSE <<baseURL, parts[2], "/">>

\* What a missing urls.csv entry makes of the call.
noURL == [err |-> FALSE, data |-> ProductData(<<"0">>, <<"0">>), logged |-> TRUE]

scrapeProductData(vendorCode, page) ==
    LET i == LastIndex(vendorCode, "_")
        baseKey == IF i # 0 THEN SubSeq(vendorCode, 1, i - 1) ELSE vendorCode
        avail == IF InStock(page.htmlStock) THEN 5 ELSE 0
        priceParts == Fields(page.price)
        \* "#" stands for the numero sign the code strips
        rawPrice == TrimSpace(RemoveAll(priceParts[1], "#"))
        parts == Split(vendorCode, "_")
        productPrice == RemoveAll(RemoveAll(TrimSpace(page.price), "p"), " ")
        none == ProductData(<<>>, <<>>)
    IN  IF MatchString(P_bubblebags1, vendorCode)
        THEN IF baseKey \notin DOMAIN bubblebagsURLMap THEN noURL
             ELSE IF page.fail THEN [err |-> TRUE, data |-> none, logged |-> FALSE]
             ELSE IF Len(priceParts) > 0
             THEN [err |-> FALSE, data |-> ProductData(rawPrice, Itoa(avail)), logged |-> FALSE]
             ELSE [err |-> FALSE, data |-> ProductData(<<"0">>, Itoa(avail)), logged |-> FALSE]
        ELSE IF Len(parts) < 2 THEN [err |-> TRUE, data |-> none, logged |-> FALSE]
        ELSE IF page.fail THEN [err |-> TRUE, data |-> none, logged |-> FALSE]
        ELSE [err |-> FALSE,
              data |-> ProductData(productPrice, Itoa(page.availableStoresCount)),
              logged |-> FALSE]

(***************************************************************************)
(* Process: the card loop                                                  *)
(***************************************************************************)
\* The pattern loops in the other order: VendorCodePatterns first.
Classify_scrapedFirst(c, vendorCode) ==
    IF MatchesAny(c.VendorCodePatterns, vendorCode) THEN "scraped"
    ELSE IF MatchesAny(c.FpPatterns, vendorCode) THEN "fp"
    ELSE "skip"

\* The two pattern loops at the head of the loop body.
Classify(c, vendorCode) ==
    IF MatchesAny(c.FpPatterns, vendorCode) THEN "fp"
    ELSE IF MatchesAny(c.VendorCodePatterns, vendorCode) THEN "scraped"
    ELSE "skip"

\* pcsInt of the fixed-price branch
FpPcs(vendorCode) ==
    LET parts == Split(vendorCode, "_")
    IN  IF Len(parts) > 2 /\ Atoi(parts[3]).ok THEN Atoi(parts[3]).val ELSE 1

\* pcsInt of the scraped branch
ScrapedPcs(c, parts) ==
    IF Len(parts) > 2 /\ c.UsePcs /\ Atoi(parts[3]).ok THEN Atoi(parts[3]).val ELSE 1

\* The SKU count that lets a card through.
OneSKU(skus) == Len(skus) = 1

\* The scraped branch without the cache test.
Cached_never(cache, productID) == FALSE

\* The cache test of the scraped branch.
Cached(cache, productID) == productID \in DOMAIN cache

\* productDataCache[productID] = productData
CachePut(cache, productID, productData) ==
    [k \in DOMAIN cache \cup {productID} |-> IF k = productID THEN productData ELSE cache[k]]

\* A failed scrape remembered as the placeholder pair of a missing URL.
CacheOnError_placeholder(cache, productID) ==
    CachePut(cache, productID, ProductData(<<"0">>, <<"0">>))

\* The cache after scrapeProductData returned an error: the loop logs and
\* continues, the cache is not written.
CacheOnError(cache, productID) == cache

card == allCards[idx + 1]

Line(msg) == [card |-> idx + 1, msg |-> msg]

InLoop == pc = "loop" /\ idx < Len(allCards)

\* A card of the fixed-price family.
FpCard ==
    /\ InLoop
    /\ Classify(cfg, card.VendorCode) = "fp"
    /\ idx' = idx + 1
    /\ LET exists == card.NmID \in DOMAIN downloadCSVData
           pcsInt == FpPcs(card.VendorCode)
           skuList == skuMap[card.NmID]
       IN  IF ~exists
           THEN /\ log' = log \o <<Line("fp"), Line("no_download_data")>>
                /\ UNCHANGED <<store, saves>>
           ELSE IF ~OneSKU(skuList)
           THEN /\ log' = log \o <<Line("fp"), Line("fp_sku_count")>>
                /\ UNCHANGED <<store, saves>>
           ELSE LET row == downloadCSVData[card.NmID]
                    params == SaveParams(card.NmID, card.VendorCode, pcsInt, Itoa(card.NmID),
                                         Itoa(row.Quantity), row.Price * pcsInt)
                IN  /\ store' = saveToDatabase(store, params, skuList[1])
                    /\ saves' = Append(saves, [params |-> params, sku |-> skuList[1], card |-> idx + 1])
                    /\ log' = log \o <<Line("fp"), Line("saved")>>
    /\ UNCHANGED <<cfg, pc, skuMap, productDataCache, scrapes>>
    /\ UNCHANGED fetchVars
    /\ UNCHANGED calcVars
    /\ UNCHANGED stockVars

\* A card that matches no pattern.
SkipCard ==
    /\ InLoop
    /\ Classify(cfg, card.VendorCode) = "skip"
    /\ idx' = idx + 1
    /\ log' = Append(log, Line("skip_vendor_code"))
    /\ UNCHANGED <<cfg, pc, skuMap, productDataCache, scrapes, store, saves>>
    /\ UNCHANGED fetchVars
    /\ UNCHANGED calcVars
    /\ UNCHANGED stockVars

\* The SKU count of a scraped card handled as in the fixed-price branch:
\* a log line, and on to the next card.
PanicCard_continue ==
    /\ InLoop
    /\ Classify(cfg, card.VendorCode) = "scraped"
    /\ ~OneSKU(skuMap[card.NmID])
    /\ idx' = idx + 1
    /\ log' = Append(log, Line("sku_count"))
    /\ UNCHANGED <<cfg, pc, skuMap, productDataCache, scrapes, store, saves>>
    /\ UNCHANGED fetchVars
    /\ UNCHANGED calcVars
    /\ UNCHANGED stockVars

\* A card of the scraped families whose SKU count is not one: panic.
PanicCard ==
    /\ InLoop
    /\ Classify(cfg, card.VendorCode) = "scraped"
    /\ ~OneSKU(skuMap[card.NmID])
    /\ pc' = "panic"
    /\ idx' = idx + 1
    /\ log' = Append(log, Line("panic"))
    /\ UNCHANGED <<cfg, skuMap, productDataCache, scrapes, store, saves>>
    /\ UNCHANGED fetchVars
    /\ UNCHANGED calcVars
    /\ UNCHANGED stockVars

\* A card of the scraped families with one SKU.
ScrapedCard ==
    /\ InLoop
    /\ Classify(cfg, card.VendorCode) = "scraped"
    /\ OneSKU(skuMap[card.NmID])
    /\ idx' = idx + 1
    /\ \E page \in Pages :
         LET skus == skuMap[card.NmID]
             parts == Split(card.VendorCode, "_")
             productID == parts[2]
             pcsInt == ScrapedPcs(cfg, parts)
             hit == Cached(productDataCache, productID)
             res == scrapeProductData(card.VendorCode, page)
             productData == IF hit THEN productDataCache[productID] ELSE res.data
             call == [vendorCode |-> card.VendorCode, productID |-> productID,
                      url |-> scrapeURL(card.VendorCode), err |-> res.err, card |-> idx + 1]
             head == IF hit THEN <<Line("cache_hit")>>
                     ELSE IF res.logged THEN <<Line("scrape"), Line("no_url")>>
                     ELSE <<Line("scrape")>>
             cost == convertAndMultiply(productData.price, Itoa(pcsInt))
             params == SaveParams(card.NmID, card.VendorCode, pcsInt, productID,
                                  productData.availableCount, cost.val)
         IN  IF Len(parts) < 2
             THEN /\ log' = Append(log, Line("bad_vendor_code"))
                  /\ UNCHANGED <<productDataCache, scrapes, store, saves>>
             ELSE /\ scrapes' = IF hit THEN scrapes ELSE Append(scrapes, call)
                  /\ IF ~hit /\ res.err
                     THEN /\ log' = log \o head \o <<Line("scrape_error")>>
                          /\ productDataCache' = CacheOnError(productDataCache, productID)
                          /\ UNCHANGED <<store, saves>>
                     ELSE /\ productDataCache' =
                               IF hit THEN productDataCache
                               ELSE CachePut(productDataCache, productID, productData)
                          /\ IF cost.err
                             THEN /\ log' = log \o head \o <<Line("convert_error")>>
                                  /\ UNCHANGED <<store, saves>>
                             ELSE /\ store' = saveToDatabase(store, params, skus[1])
                                  /\ saves' = Append(saves, [params |-> params, sku |-> skus[1],
                                                             card |-> idx + 1])
                                  /\ log' = log \o head \o <<Line("saved")>>
    /\ UNCHANGED <<cfg, pc, skuMap>>
    /\ UNCHANGED fetchVars
    /\ UNCHANGED calcVars
    /\ UNCHANGED stockVars

\* The loop has taken every card: Process returns nil.
Finish ==
    /\ pc = "loop"
    /\ idx = Len(allCards)
    /\ pc' = "done"
    /\ UNCHANGED <<cfg, store, saves>>
    /\ UNCHANGED loopVars
    /\ UNCHANGED fetchVars
    /\ UNCHANGED calcVars
    /\ UNCHANGED stockVars

(***************************************************************************)
(* The run of Process                                                      *)
(***************************************************************************)
Init ==
    /\ cfg \in Configs
    /\ pc = "fetch"
    /\ allCards = <<>>
    /\ updatedAt = ""
    /\ nmID = 0
    /\ requests = <<>>
    /\ pages = <<>>
    /\ idx = 0
    /\ skuMap = <<>>
    /\ productDataCache = <<>>
    /\ store = {}
    /\ saves = <<>>
    /\ scrapes = <<>>
    /\ log = <<>>
    /\ pcs = 0
    /\ availableCount = 0
    /\ amount = 0
    /\ total = 0
    /\ offset = 0
    /\ events = <<>>

Next ==
    \/ FetchPage
    \/ StartLoop
    \/ FpCard
    \/ SkipCard
    \/ PanicCard
    \/ ScrapedCard
    \/ Finish

Spec == Init /\ [][Next]_vars

(***************************************************************************)
(* saveToDatabase on its own: any sequence of calls on one store           *)
(***************************************************************************)
\* Arguments of a call: every composite key with several payloads.
SaveInputs ==
    { [params |-> SaveParams(pl[1], pl[2], p, pid, pl[3], pl[4]), sku |-> pl[5], card |-> 0] :
        pid \in {<<"7", "7">>, <<"5">>},
        p \in {1, 3},
        pl \in { <<1, VC_box_77_20, <<"3">>, 30, "sku1">>,
                 <<2, VC_box_77_3, <<"1", "2">>, 33, "sku2">>,
                 <<2, VC_box_77_3, <<"n", "/", "a">>, 33, "sku1">> } }

InitSave ==
    /\ cfg = [FpPatterns |-> FpPatterns, VendorCodePatterns |-> VendorCodePatterns, UsePcs |-> TRUE]
    /\ pc = "save"
    /\ allCards = <<>>
    /\ updatedAt = ""
    /\ nmID = 0
    /\ requests = <<>>
    /\ pages = <<>>
    /\ idx = 0
    /\ skuMap = <<>>
    /\ productDataCache = <<>>
    /\ store = {}
    /\ saves = <<>>
    /\ scrapes = <<>>
    /\ log = <<>>
    /\ pcs = 0
    /\ availableCount = 0
    /\ amount = 0
    /\ total = 0
    /\ offset = 0
    /\ events = <<>>

SaveCall ==
    /\ pc = "save"
    /\ Len(saves) < MaxSaves
    /\ \E in \in SaveInputs :
         /\ store' = saveToDatabase(store, in.params, in.sku)
         /\ saves' = Append(saves, in)
    /\ UNCHANGED <<cfg, pc>>
    /\ UNCHANGED loopVars
    /\ UNCHANGED fetchVars
    /\ UNCHANGED calcVars
    /\ UNCHANGED stockVars

NextSave == SaveCall

SpecSave == InitSave /\ [][NextSave]_vars

(***************************************************************************)
(* calcAmount                                                              *)
(***************************************************************************)
\* calcAmount with any other pack of availability 5 counted as one unit.
calcAmount_default(p, a) ==
    IF a = 5 /\ p = 100 THEN 1
    ELSE IF a = 5 /\ p = 50 THEN 1
    ELSE IF a = 5 /\ p = 30 THEN 2
    ELSE IF a = 5 /\ p = 10 THEN 5
    ELSE IF a = 4 /\ p = 30 THEN 1
    ELSE IF a = 4 /\ p = 10 THEN 3
    ELSE IF a = 5 /\ p = 1 THEN 5
    ELSE IF a = 5 /\ p = 3 THEN 3
    ELSE IF a = 5 /\ p = 5 THEN 2
    ELSE IF a = 5 THEN 1
    ELSE 0

calcAmount(p, a) ==
    IF a = 5 /\ p = 100 THEN 1
    ELSE IF a = 5 /\ p = 50 THEN 1
    ELSE IF a = 5 /\ p = 30 THEN 2
    ELSE IF a = 5 /\ p = 10 THEN 5
    ELSE IF a = 4 /\ p = 30 THEN 1
    ELSE IF a = 4 /\ p = 10 THEN 3
    ELSE IF a = 5 /\ p = 1 THEN 5
    ELSE IF a = 5 /\ p = 3 THEN 3
    ELSE IF a = 5 /\ p = 5 THEN 2
    ELSE 0

\* A row (pcs, available_count) read by updateStocks, before calcAmount.
InitCalc ==
    /\ cfg = [FpPatterns |-> FpPatterns, VendorCodePatterns |-> VendorCodePatterns, UsePcs |-> TRUE]
    /\ pc = "calc"
    /\ allCards = <<>>
    /\ updatedAt = ""
    /\ nmID = 0
    /\ requests = <<>>
    /\ pages = <<>>
    /\ idx = 0
    /\ skuMap = <<>>
    /\ productDataCache = <<>>
    /\ store = {}
    /\ saves = <<>>
    /\ scrapes = <<>>
    /\ log = <<>>
    /\ pcs \in (0 - 1)..MaxPcs
    /\ availableCount \in (0 - 1)..MaxAvail
    /\ amount = 0
    /\ total = 0
    /\ offset = 0
    /\ events = <<>>

\* amount := calcAmount(pcs, availableCount)
CalcAmountCall ==
    /\ pc = "calc"
    /\ amount' = calcAmount(pcs, availableCount)
    /\ pc' = "calc_done"
    /\ UNCHANGED <<cfg, store, saves, pcs, availableCount>>
    /\ UNCHANGED loopVars
    /\ UNCHANGED fetchVars
    /\ UNCHANGED stockVars

NextCalc == CalcAmountCall

SpecCalc == InitCalc /\ [][NextCalc]_vars

(***************************************************************************)
(* updateStocks: the batch loop                                            *)
(***************************************************************************)
BatchSize == 1000
RequestLimit == 300

\* requestInterval, in milliseconds
requestInterval == 60000 \div RequestLimit

\* What may happen to a batch: json.Marshal fails, http.NewRequest fails,
\* client.Do fails, the API answers 204, the API answers another status.
Outcomes == {"marshal_error", "request_error", "send_error", "no_content", "other_status"}

\* end of the batch that starts at index i
BatchEnd(i, n) == IF i + BatchSize > n THEN n ELSE i + BatchSize

\* time.Sleep only where a request was answered.
SleepsAfter_answered(outcome) == outcome \in {"no_content", "other_status"}

\* Whether time.Sleep(requestInterval) runs before the next iteration:
\* the two failures to build the request continue without it.
SleepsAfter(outcome) == outcome \in {"send_error", "no_content", "other_status"}

\* Numbers of rows read from table products.
Totals == {0, 1, BatchSize - 1, BatchSize, BatchSize + 1, 2 * BatchSize, MaxRows}

InitStocks ==
    /\ cfg = [FpPatterns |-> FpPatterns, VendorCodePatterns |-> VendorCodePatterns, UsePcs |-> TRUE]
    /\ pc = "stocks"
    /\ allCards = <<>>
    /\ updatedAt = ""
    /\ nmID = 0
    /\ requests = <<>>
    /\ pages = <<>>
    /\ idx = 0
    /\ skuMap = <<>>
    /\ productDataCache = <<>>
    /\ store = {}
    /\ saves = <<>>
    /\ scrapes = <<>>
    /\ log = <<>>
    /\ pcs = 0
    /\ availableCount = 0
    /\ amount = 0
    /\ total \in Totals
    /\ offset = 0
    /\ events = <<>>

\* One iteration of the batch loop: rows offset..end-1 (0-based) are the
\* batch, and the outcome decides whether the sleep follows.
PushBatch ==
    /\ pc = "stocks"
    /\ offset < total
    /\ \E outcome \in Outcomes :
         LET batch == [ev |-> "batch", from |-> offset, to |-> BatchEnd(offset, total),
                       outcome |-> outcome]
             sleep == [ev |-> "sleep", from |-> offset, to |-> requestInterval,
                       outcome |-> outcome]
         IN  events' = IF SleepsAfter(outcome) THEN events \o <<batch, sleep>>
                       ELSE Append(events, batch)
    /\ offset' = offset + BatchSize
    /\ UNCHANGED <<cfg, pc, store, saves, total>>
    /\ UNCHANGED loopVars
    /\ UNCHANGED fetchVars
    /\ UNCHANGED calcVars

\* The loop has passed the last row: updateStocks returns nil.
StocksDone ==
    /\ pc = "stocks"
    /\ offset >= total
    /\ pc' = "stocks_done"
    /\ UNCHANGED <<cfg, store, saves>>
    /\ UNCHANGED loopVars
    /\ UNCHANGED fetchVars
    /\ UNCHANGED calcVars
    /\ UNCHANGED stockVars

NextStocks ==
    \/ PushBatch
    \/ StocksDone

SpecStocks == InitStocks /\ [][NextStocks]_vars

(***************************************************************************)
(* Properties                                                              *)
(***************************************************************************)

\* C1: after any sequence of saveToDatabase calls the store holds at most
\* one row per (product_id, pcs), that row carries the nmID, vendor code,
\* SKU, availability and cost of the latest call with that key, every row
\* comes from a call, and repeating the previous call leaves the store as
\* it is.
C1_Upsert ==
    /\ [](/\ \A r1, r2 \in store :
               (r1.product_id = r2.product_id /\ r1.pcs = r2.pcs) => r1 = r2
          /\ \A r \in store : \E i \in 1..Len(saves) :
               saves[i].params.ProductID = r.product_id /\ saves[i].params.Pcs = r.pcs
          /\ \A i \in 1..Len(saves) :
               (\A j \in (i + 1)..Len(saves) :
                   ~(/\ saves[j].params.ProductID = saves[i].params.ProductID
                     /\ saves[j].params.Pcs = saves[i].params.Pcs))
               => \E r \in store :
                    /\ r.product_id = saves[i].params.ProductID
                    /\ r.pcs = saves[i].params.Pcs
                    /\ r.nm_id = saves[i].params.NmID
                    /\ r.vendor_code = saves[i].params.VendorCode
                    /\ r.sku = saves[i].sku
                    /\ r.cost = saves[i].params.Cost
                    /\ r.available_count =
                         (IF AllDigits(saves[i].params.AvailableCountStr)
                          THEN DecVal(saves[i].params.AvailableCountStr) ELSE 0))
    /\ [][(Len(saves) > 0 /\ saves' = Append(saves, saves[Len(saves)])) => store' = store]_vars

\* C1 witness: a key was saved twice with different fields, and a call was
\* repeated as it was.
C1_Witness ==
    /\ pc = "save"
    /\ \E i, j \in 1..Len(saves) :
         /\ i < j
         /\ saves[i].params.ProductID = saves[j].params.ProductID
         /\ saves[i].params.Pcs = saves[j].params.Pcs
         /\ saves[i].params.Cost # saves[j].params.Cost
    /\ \E i \in 1..(Len(saves) - 1) : saves[i] = saves[i + 1]

\* C7: calcAmount gives the tabulated count for every recognised pair
\* ((5,50) -> 1, (5,10) -> 5, (4,30) -> 1 among them), 0 for every other
\* pair, and never a negative count.
C7_CalcAmount ==
    pc = "calc_done" =>
        LET table == { <<100, 5, 1>>, <<50, 5, 1>>, <<30, 5, 2>>, <<10, 5, 5>>, <<30, 4, 1>>,
                       <<10, 4, 3>>, <<1, 5, 5>>, <<3, 5, 3>>, <<5, 5, 2>> }
        IN  /\ \A t \in table : (pcs = t[1] /\ availableCount = t[2]) => amount = t[3]
            /\ (\A t \in table : ~(pcs = t[1] /\ availableCount = t[2])) => amount = 0
            /\ amount >= 0

\* C7 witness: the pair (packSize 7, availability 5) is outside the table.
C7_Witness == pc = "calc_done" /\ pcs = 7 /\ availableCount = 5 /\ amount = 0

\* C2: fetchAllCards starts from the cursor (empty, 0); a response with an
\* empty batch, or with a cursor whose timestamp is empty or whose id is
\* zero, is the last one requested and ends the fetch; the cards held are
\* the batches received so far, concatenated in response order.
C2_FetchTerminates ==
    LET RECURSIVE Concat(_)
        Concat(ps) == IF Len(ps) = 0 THEN <<>> ELSE Head(ps).Cards \o Concat(Tail(ps))
        ends(r) == ~r.err /\ (Len(r.Cards) = 0 \/ r.Cursor.UpdatedAt = "" \/ r.Cursor.NmID = 0)
    IN  /\ Len(requests) > 0 => requests[1] = [UpdatedAt |-> "", NmID |-> 0]
        /\ Len(requests) = Len(pages)
        /\ \A i \in 1..Len(pages) : ends(pages[i]) => (i = Len(pages) /\ pc # "fetch")
        /\ \A i \in 2..Len(requests) : requests[i] = pages[i - 1].Cursor
        /\ (\E i \in 1..Len(pages) : ends(pages[i])) => allCards = Concat(pages)

\* C2 witness: a fetch of several pages ended by a non-empty batch with a
\* terminal cursor, all of whose cards were returned to the card loop.
C2_Witness ==
    /\ pc = "loop"
    /\ Len(pages) > 1
    /\ ~pages[Len(pages)].err
    /\ Len(pages[Len(pages)].Cards) > 0
    /\ pages[Len(pages)].Cursor.NmID = 0
    /\ Len(allCards) > Len(pages)

\* C3: when a page request fails, it is the last request, the cards
\* returned are exactly those of the pages before it, and the run goes on
\* to the card loop over those cards: it leaves the fetch, and when it ends
\* normally the loop has taken each of them.
C3_FetchError ==
    LET RECURSIVE Concat(_)
        Concat(ps) == IF Len(ps) = 0 THEN <<>> ELSE Head(ps).Cards \o Concat(Tail(ps))
    IN  \A i \in 1..Len(pages) :
          pages[i].err =>
            /\ i = Len(pages)
            /\ allCards = Concat(SubSeq(pages, 1, i - 1))
            /\ pc \in {"fetched", "loop", "done", "panic"}
            /\ pc = "loop" => idx <= Len(allCards)
            /\ pc = "done" =>
                 /\ idx = Len(allCards)
                 /\ \A k \in 1..Len(allCards) : \E l \in 1..Len(log) : log[l].card = k

\* C3 witness: the second request failed and the card of the first page was
\* processed and persisted.
C3_Witness ==
    /\ pc = "done"
    /\ Len(pages) = 2
    /\ pages[2].err
    /\ Len(allCards) > 0
    /\ store # {}

\* C4: a card whose vendor code matches a fixed-price pattern is handled by
\* the price-table branch alone, whether or not it also matches a scraped
\* pattern: no scrape, no cache write, and any row it persists is keyed by
\* its nmID and priced from download.csv.  A card that matches no pattern
\* causes no scrape, no cache write and no row.
C4_Classification ==
    [][idx' = idx + 1 =>
         LET c == allCards[idx + 1]
             fp == \E i \in 1..Len(cfg.FpPatterns) : MatchString(Compile(cfg.FpPatterns[i]), c.VendorCode)
             sc == \E i \in 1..Len(cfg.VendorCodePatterns) :
                      MatchString(Compile(cfg.VendorCodePatterns[i]), c.VendorCode)
         IN  /\ fp =>
                  /\ scrapes' = scrapes
                  /\ productDataCache' = productDataCache
                  /\ pc' = "loop"
                  /\ saves' # saves =>
                       /\ Len(saves') = Len(saves) + 1
                       /\ c.NmID \in DOMAIN downloadCSVData
                       /\ saves'[Len(saves')].params.ProductID = Itoa(c.NmID)
                       /\ saves'[Len(saves')].params.Cost =
                            downloadCSVData[c.NmID].Price * saves'[Len(saves')].params.Pcs
             /\ (~fp /\ ~sc) =>
                  /\ scrapes' = scrapes
                  /\ productDataCache' = productDataCache
                  /\ store' = store
                  /\ saves' = saves
                  /\ pc' = "loop"]_vars

\* C4 witness: a card matching both a fixed-price and a scraped pattern was
\* persisted from the price table, and a card matching no pattern was
\* skipped.
C4_Witness ==
    /\ \E i \in 1..Len(saves) :
         /\ MatchesAny(cfg.FpPatterns, saves[i].params.VendorCode)
         /\ MatchesAny(cfg.VendorCodePatterns, saves[i].params.VendorCode)
    /\ \E l \in 1..Len(log) : log[l].msg = "skip_vendor_code"
    /\ scrapes = <<>>

\* C5: a card of the scraped families whose sizes hold zero or several SKUs
\* halts the run: the step writes no row, and from the halted state
\* nothing changes any more.  A fixed-price card with zero or several SKUs
\* writes no row and the loop goes on.
C5_SkuCount ==
    [][/\ pc = "panic" => UNCHANGED vars
       /\ idx' = idx + 1 =>
            LET RECURSIVE Count(_)
                Count(sizes) == IF Len(sizes) = 0 THEN 0 ELSE Len(Head(sizes)) + Count(Tail(sizes))
                c == allCards[idx + 1]
                fp == \E i \in 1..Len(cfg.FpPatterns) : MatchString(Compile(cfg.FpPatterns[i]), c.VendorCode)
                sc == \E i \in 1..Len(cfg.VendorCodePatterns) :
                         MatchString(Compile(cfg.VendorCodePatterns[i]), c.VendorCode)
            IN  /\ (~fp /\ sc /\ Count(c.Sizes) # 1) =>
                     (pc' = "panic" /\ store' = store /\ saves' = saves)
                /\ (fp /\ Count(c.Sizes) # 1) =>
                     (pc' = "loop" /\ store' = store /\ saves' = saves)
                /\ pc' = "panic" => (~fp /\ sc /\ Count(c.Sizes) # 1)]_vars

\* C5 witness: a scraped-family card with two SKUs halted the run after a
\* row had been written and with a later card left untaken.
C5_Witness ==
    /\ pc = "panic"
    /\ store # {}
    /\ idx < Len(allCards)
    /\ Len(skuMap[allCards[idx].NmID]) = 2

\* C6: a scraped-family card is persisted with cost = ceil(price) times its
\* pack size, price being the decimal price acquired for its product key
\* (15.50 -> 16, 10.01 -> 11, 10.00 -> 10, 0 -> 0); when the acquired price
\* is not numeric no row is written for the card.
C6_Cost ==
    [][idx' = idx + 1 =>
         LET c == allCards[idx + 1]
             fp == \E i \in 1..Len(cfg.FpPatterns) : MatchString(Compile(cfg.FpPatterns[i]), c.VendorCode)
             sc == \E i \in 1..Len(cfg.VendorCodePatterns) :
                      MatchString(Compile(cfg.VendorCodePatterns[i]), c.VendorCode)
             key == Split(c.VendorCode, "_")[2]
             ceilOf == (<<"1", "5", ".", "5", "0">> :> 16) @@ (<<"1", "0", ".", "0", "1">> :> 11)
                         @@ (<<"1", "0", ".", "0", "0">> :> 10) @@ (<<"0">> :> 0)
         IN  (~fp /\ sc) =>
               IF saves' # saves
               THEN /\ key \in DOMAIN productDataCache'
                    /\ productDataCache'[key].price \in DOMAIN ceilOf
                    /\ saves'[Len(saves')].card = idx + 1
                    /\ saves'[Len(saves')].params.Cost =
                         ceilOf[productDataCache'[key].price] * saves'[Len(saves')].params.Pcs
                    /\ \E r \in store' :
                         /\ r.product_id = key
                         /\ r.pcs = saves'[Len(saves')].params.Pcs
                         /\ r.cost = saves'[Len(saves')].params.Cost
               ELSE /\ store' = store
                    /\ (pc' = "loop" /\ key \in DOMAIN productDataCache') =>
                         productDataCache'[key].price \notin DOMAIN ceilOf]_vars

\* C6 witness: box_77_20 persisted at price 15.50 with pack size 20 and
\* cost 320, and a card whose price was not numeric left without a row.
C6_Witness ==
    /\ \E r \in store : r.vendor_code = VC_box_77_20 /\ r.pcs = 20 /\ r.cost = 320
    /\ \E i \in 1..Len(saves) :
         saves[i].params.VendorCode = VC_box_77_20 /\ saves[i].params.Cost = 320
    /\ productDataCache[<<"7", "7">>].price = <<"1", "5", ".", "5", "0">>

\* C8: an entry of the scrape cache is never changed or removed; a card
\* whose product key is in the cache causes no scrapeProductData call; and
\* no product key has two successful scrapes in a run.
C8_CacheWriteOnce ==
    /\ [](\A i, j \in 1..Len(scrapes) :
            (i < j /\ scrapes[i].productID = scrapes[j].productID)
              => (scrapes[i].err \/ scrapes[j].err))
    /\ [][/\ pc = "loop" =>
               \A k \in DOMAIN productDataCache :
                  k \in DOMAIN productDataCache' /\ productDataCache'[k] = productDataCache[k]
          /\ idx' = idx + 1 =>
               LET parts == Split(allCards[idx + 1].VendorCode, "_")
               IN  (Len(parts) > 1 /\ parts[2] \in DOMAIN productDataCache) => scrapes' = scrapes
          /\ scrapes' # scrapes =>
               /\ Len(scrapes') = Len(scrapes) + 1
               /\ scrapes'[Len(scrapes')].productID \notin DOMAIN productDataCache
               /\ ~scrapes'[Len(scrapes')].err =>
                    scrapes'[Len(scrapes')].productID \in DOMAIN productDataCache']_vars

\* C8 witness: two cards with the same product key were persisted from one
\* scrape, the second from the cache.
C8_Witness ==
    /\ Len(scrapes) = 1
    /\ Len(saves) = 2
    /\ saves[1].params.ProductID = saves[2].params.ProductID
    /\ saves[1].params.Pcs # saves[2].params.Pcs
    /\ \E l \in 1..Len(log) : log[l].msg = "cache_hit"

\* C9: a card whose lookup entry is missing (no download.csv row for its
\* nmID in the fixed-price family, no urls.csv entry for its key in the
\* bubblebags_1 family) is logged and skipped: no row is persisted for it
\* and the loop goes on with the next card.
C9_MissingLookupSkipped ==
    [][idx' = idx + 1 =>
         LET c == allCards[idx + 1]
             fp == \E i \in 1..Len(cfg.FpPatterns) : MatchString(Compile(cfg.FpPatterns[i]), c.VendorCode)
             sc == \E i \in 1..Len(cfg.VendorCodePatterns) :
                      MatchString(Compile(cfg.VendorCodePatterns[i]), c.VendorCode)
             parts == Split(c.VendorCode, "_")
             bag == Len(parts) = 3 /\ parts[1] = W_bubblebags /\ Len(parts[2]) > 1 /\ parts[2][1] = "1"
             noPrice == fp /\ c.NmID \notin DOMAIN downloadCSVData
             noLink == ~fp /\ sc /\ bag /\ (parts[1] \o <<"_">> \o parts[2]) \notin DOMAIN bubblebagsURLMap
         IN  (noPrice \/ noLink) =>
               /\ log' # log
               /\ saves' = saves
               /\ store' = store
               /\ pc' = "loop"]_vars

\* C10: every persisted pack size is the integer value of the third "_"
\* segment of the vendor code when that segment is there, is an integer and
\* UsePcs is set, and 1 in every other case; so with UsePcs off every row
\* has pack size 1.
C10_PackSize ==
    /\ \A i \in 1..Len(saves) :
         LET parts == Split(saves[i].params.VendorCode, "_")
         IN  saves[i].params.Pcs =
               (IF cfg.UsePcs /\ Len(parts) > 2 /\ Len(parts[3]) > 0 /\ AllDigits(parts[3])
                THEN DecVal(parts[3]) ELSE 1)
    /\ ~cfg.UsePcs => \A r \in store : r.pcs = 1

\* C11 (as claimed): once a scrape for a product key has failed, no scrape
\* for that product key is attempted again in the run, also not for a later
\* card with the same product key.
C11_NoReattempt ==
    \A i, j \in 1..Len(scrapes) :
        (i < j /\ scrapes[i].err) => scrapes[j].productID # scrapes[i].productID

\* C11 (amended): a card whose scrape fails is skipped, with no row and no
\* cache entry written, and the loop goes on; no card causes more than one
\* scrapeProductData call; a later scraped card whose product key is not in
\* the cache is scraped, also when an earlier scrape for that key failed.
C11_NoRetryPerCard ==
    /\ [](\A i, j \in 1..Len(scrapes) : i < j => scrapes[i].card < scrapes[j].card)
    /\ [][/\ (scrapes' # scrapes /\ scrapes'[Len(scrapes')].err) =>
               /\ Len(scrapes') = Len(scrapes) + 1
               /\ scrapes'[Len(scrapes')].card = idx + 1
               /\ idx' = idx + 1
               /\ pc' = "loop"
               /\ store' = store
               /\ saves' = saves
               /\ productDataCache' = productDataCache
          /\ (idx' = idx + 1 /\ pc' = "loop") =>
               LET c == allCards[idx + 1]
                   fp == \E i \in 1..Len(cfg.FpPatterns) :
                            MatchString(Compile(cfg.FpPatterns[i]), c.VendorCode)
                   sc == \E i \in 1..Len(cfg.VendorCodePatterns) :
                            MatchString(Compile(cfg.VendorCodePatterns[i]), c.VendorCode)
                   key == Split(c.VendorCode, "_")[2]
               IN  (~fp /\ sc /\ key \notin DOMAIN productDataCache) =>
                     /\ Len(scrapes') = Len(scrapes) + 1
                     /\ scrapes'[Len(scrapes')].productID = key]_vars

\* C11 witness: the scrape for a product key failed, the card was skipped,
\* and the next card with that product key was scraped again and persisted.
C11_Witness ==
    /\ Len(scrapes) = 2
    /\ scrapes[1].err
    /\ ~scrapes[2].err
    /\ scrapes[1].productID = scrapes[2].productID
    /\ Len(saves) = 1
    /\ saves[1].card = scrapes[2].card
    /\ \E l \in 1..Len(log) : log[l].card = scrapes[1].card /\ log[l].msg = "scrape_error"

\* C12 (as claimed): every batch, whatever its outcome, is followed by the
\* rate-limit sleep before anything else happens.
C12_SleepAfterEveryBatch ==
    \A k \in 1..Len(events) :
        events[k].ev = "batch" => (k < Len(events) /\ events[k + 1].ev = "sleep")

\* C12 (amended): the rows are pushed in consecutive batches of 1000, the
\* last possibly smaller; a batch whose request was sent (204, another
\* status, or a send error) is followed by one sleep of 200 ms before the
\* next batch; a batch whose request could not be built is followed
\* directly by the next batch; whatever the outcomes, the loop ends only
\* after the batches have covered every row.
C12_BatchesAndSleeps ==
    LET isBatch(k) == events[k].ev = "batch"
        sent(k) == events[k].outcome \in {"send_error", "no_content", "other_status"}
        before(k) == Cardinality({m \in 1..(k - 1) : isBatch(m)})
    IN  /\ \A k \in 1..Len(events) :
              /\ isBatch(k) =>
                   /\ events[k].from = 1000 * before(k)
                   /\ events[k].to = (IF events[k].from + 1000 > total THEN total
                                      ELSE events[k].from + 1000)
                   /\ events[k].from < events[k].to
                   /\ sent(k) => (k < Len(events) /\ events[k + 1].ev = "sleep"
                                                  /\ events[k + 1].to = 200)
                   /\ ~sent(k) => (k < Len(events) => isBatch(k + 1))
              /\ ~isBatch(k) => (k > 1 /\ isBatch(k - 1) /\ sent(k - 1))
        /\ offset = 1000 * Cardinality({m \in 1..Len(events) : isBatch(m)})
        /\ pc = "stocks_done" =>
              1000 * Cardinality({m \in 1..Len(events) : isBatch(m)}) >= total
        /\ pc = "stocks_done" =>
              \A m \in 1..Len(events) : (isBatch(m) /\ events[m].to = total) =>
                  \A n \in (m + 1)..Len(events) : ~isBatch(n)

\* C12 witness: three batches, the last smaller; one was answered 204, one
\* failed to send, one could not be built and has no sleep after it.
C12_Witness ==
    /\ pc = "stocks_done"
    /\ total > 2 * 1000
    /\ \E k \in 1..Len(events) : events[k].ev = "batch" /\ events[k].to - events[k].from < 1000
    /\ \E k \in 1..Len(events) : events[k].ev = "batch" /\ events[k].outcome = "no_content"
    /\ \E k \in 1..Len(events) : events[k].ev = "batch" /\ events[k].outcome = "send_error"
    /\ \E k \in 1..(Len(events) - 1) :
         /\ events[k].ev = "batch"
         /\ events[k].outcome = "request_error"
         /\ events[k + 1].ev = "batch"

\* C13 (as claimed): whenever a card takes its price and availability from
\* the scrape cache, the scrape that filled the entry had the target (bag
\* page or catalogue page, and URL) that the card's own vendor code selects.
C13_CacheSameTarget ==
    \A k \in 1..Len(log) :
        log[k].msg = "cache_hit" =>
            \A n \in 1..Len(scrapes) :
                (/\ ~scrapes[n].err
                 /\ scrapes[n].productID = Split(allCards[log[k].card].VendorCode, "_")[2])
                => /\ scrapes[n].url = scrapeURL(allCards[log[k].card].VendorCode)
                   /\ MatchString(P_bubblebags1, scrapes[n].vendorCode)
                        = MatchString(P_bubblebags1, allCards[log[k].card].VendorCode)

====
